---------------------------- MODULE Spec2Model ----------------------------
(***************************************************************************)
(* Item 8 section extraction engine of sec_extractor                       *)
(* (src/src/extractors/section.rs).                                        *)
(*                                                                         *)
(* A document is a sequence of tokens.  Every token stands for one         *)
(* concrete line of markup (its text is given below, each ends with a      *)
(* newline and starts with '<'), so a document is the concatenation of     *)
(* its tokens' texts and every position is a byte offset into it.          *)
(*                                                                         *)
(*   TH   <h1>Table of Contents</h1>                                       *)
(*   TL   <a href="#item8">Item 8. Financial Statements and                *)
(*        Supplementary Data</a><br>                                       *)
(*   HR   <hr>                                                             *)
(*   P2   <h1>PART II</h1>                                                 *)
(*   H8   <h2 id="item8">Item 8. Financial Statements and                  *)
(*        Supplementary Data</h2>                                          *)
(*   B8   <b>Item 8. Financial Statements and Supplementary Data</b>       *)
(*   X9   <h2 id="item8">Item 9. Changes in and Disagreements with         *)
(*        Accountants</h2>      (the Item 8 anchor on the Item 9 heading)  *)
(*   FIN  <h3>Consolidated Balance Sheets</h3>                             *)
(*        <table><tr><th>Assets</th><th>2023</th></tr><tr><td>Cash</td>    *)
(*        <td>1000</td></tr></table>                                       *)
(*   HF   <h3>Consolidated Balance Sheets</h3>    (the heading alone)      *)
(*   TB   <table><tr><th>Assets</th><th>2023</th></tr><tr><td>Cash</td>    *)
(*        <td>1000</td></tr><tr><td>Other</td><td>99999</td></tr></table>  *)
(*                              (a table alone, as long as FIN: 125 bytes) *)
(*   PAD  <p>xxx...x</p>        (795 times x: 803 bytes of neutral text)   *)
(*   H9   <h2>Item 9. Changes in and Disagreements with                    *)
(*        Accountants</h2>                                                 *)
(*   H9A  <h2>Item 9A. Controls and Procedures</h2>                        *)
(*   P3   <h1>PART III</h1>                                                *)
(*                                                                         *)
(* A regular expression of the source is modelled by its matches: for      *)
(* every token the set of <<start, end>> offsets (relative to the token)   *)
(* at which the expression matches the token's text, as Regex::find_iter   *)
(* reports them.  No expression of the source matches across a line break  *)
(* between two of these tokens.  A list of expressions of the source       *)
(* (tried in rank order) is a sequence of such tables, in the source's     *)
(* order.  str::contains is modelled the same way by the offsets at which  *)
(* the needle occurs in each token's (lower-cased) text.                   *)
(***************************************************************************)
EXTENDS Integers, Sequences, FiniteSets, TLC

(* Bound: the longest body (FIN / PAD tokens) between the Item 8 heading   *)
(* and the Item 9 heading of a generated document.                        *)
MaxBody == 2

(* Bound: the number of calls of extract_item_8 on one document in the    *)
(* repeated-call specification.                                            *)
MaxCalls == 2

(* Bound: the number of filings found for the ticker. *)
MaxFilings == 2

(* Bound: the longest run of neutral text (PAD tokens, 803 bytes each) in  *)
(* a document given to is_in_table_of_contents; 7 of them exceed its       *)
(* look-back window.                                                       *)
MaxPads == 7

Tokens == {"TH", "TL", "HR", "P2", "H8", "B8", "X9", "FIN", "HF", "TB", "PAD", "H9", "H9A", "P3"}

(* Byte length of each token's text. *)
TokLen ==
  [TH |-> 27, TL |-> 77, HR |-> 5, P2 |-> 17, H8 |-> 72, B8 |-> 59, X9 |-> 74,
   FIN |-> 125, HF |-> 37, TB |-> 125, PAD |-> 803, H9 |-> 63, H9A |-> 42, P3 |-> 18]

(* ------------------------------------------------------------------ *)
(* Positions, regex matches and substring tests on a document          *)
(* ------------------------------------------------------------------ *)

RECURSIVE Pos(_, _)
(* Byte offset at which token i of doc begins (i = Len(doc)+1: the length). *)
Pos(doc, i) == IF i = 1 THEN 0 ELSE Pos(doc, i - 1) + TokLen[doc[i - 1]]

(* html_content.len() *)
DocLen(doc) == Pos(doc, Len(doc) + 1)

Min2(a, b) == IF a < b THEN a ELSE b

(* The matches of one regular expression (table re) in doc: absolute       *)
(* <<start, end>> pairs, as Regex::find_iter(html_content) yields them.    *)
find_iter(re, doc) ==
  UNION { { <<Pos(doc, i) + m[1], Pos(doc, i) + m[2]>> : m \in re[doc[i]] }
          : i \in { j \in 1..Len(doc) : doc[j] \in DOMAIN re } }

(* The match with the least start in a non-empty set of matches. *)
Leftmost(ms) == CHOOSE m \in ms : \A n \in ms : m[1] <= n[1]

(* The matches of re.find(&html_content[from..to]): the matches lying in   *)
(* the slice [from, to).                                                   *)
MatchesIn(re, doc, from, to) ==
  { m \in find_iter(re, doc) : m[1] >= from /\ m[2] <= to }

(* The offsets at which each needle of a str::contains test occurs in each *)
(* token's text (lower-cased, except for the case-sensitive "<table").     *)
Occurrences ==
  "consolidated" :> [FIN |-> {4}, HF |-> {4}]
  @@ "balance sheet" :> [FIN |-> {17}, HF |-> {17}]
  @@ "income statement" :> <<>>
  @@ "cash flow" :> <<>>
  @@ "financial statement" :> [TL |-> {25}, H8 |-> {23}, B8 |-> {11}]
  @@ "audit" :> <<>>
  @@ "notes to" :> <<>>
  @@ "statement of" :> <<>>
  @@ "report of independent" :> <<>>
  @@ "opinion" :> <<>>
  @@ "consolidated balance sheet" :> [FIN |-> {4}, HF |-> {4}]
  @@ "statement of operations" :> <<>>
  @@ "statement of income" :> <<>>
  @@ "statement of cash flow" :> <<>>
  @@ "<table" :> [FIN |-> {37}, TB |-> {0}]
  @@ "financial statements" :> [TL |-> {25}, H8 |-> {23}, B8 |-> {11}]
  @@ "notes to consolidated" :> <<>>
  @@ "report" :> <<>>
  @@ "independent" :> <<>>
  @@ "assets" :> [FIN |-> {52}, TB |-> {15}]
  @@ "liabilities" :> <<>>
  @@ "equity" :> <<>>
  @@ "revenue" :> <<>>
  @@ "expense" :> <<>>

(* html_content[from..to].to_lowercase().contains(needle) *)
contains(doc, from, to, needle) ==
  \E i \in 1..Len(doc) :
     /\ doc[i] \in DOMAIN Occurrences[needle]
     /\ \E o \in Occurrences[needle][doc[i]] :
           /\ Pos(doc, i) + o >= from
           /\ Pos(doc, i) + o + Len(needle) <= to

(* ------------------------------------------------------------------ *)
(* is_in_table_of_contents                                             *)
(* ------------------------------------------------------------------ *)

toc_indicators ==
  << [TH |-> {<<0, 26>>}],
     <<>>,
     [TH |-> {<<4, 21>>}] >>

end_toc_markers ==
  << <<>>,
     <<>>,
     [HR |-> {<<0, 3>>}],
     <<>> >>

(* The look-back window of is_in_table_of_contents, in bytes. *)
TocLookBack == 5000

(* A variant of TocStartSearch that looks back to the start of the document. *)
TocStartSearch_WholeDocument(position) == 0

(* start_search *)
TocStartSearch(position) == IF position > TocLookBack THEN position - TocLookBack ELSE 0

(* Some ToC indicator matches content_before = html_content[from..position]. *)
TocIndicatorBefore(doc, from, position) ==
  \E p \in 1..Len(toc_indicators) : MatchesIn(toc_indicators[p], doc, from, position) # {}

(* end_re.find(content_before) is a match that ends before the position. *)
FirstEndsBefore(ms, position) == ms # {} /\ Leftmost(ms)[2] < position

(* Some end-of-ToC marker's first match in content_before ends before the position. *)
EndTocMarkerBefore(doc, from, position) ==
  \E e \in 1..Len(end_toc_markers) :
     FirstEndsBefore(MatchesIn(end_toc_markers[e], doc, from, position), position)

InTocWindow(doc, from, position) ==
  IF TocIndicatorBefore(doc, from, position)
  THEN ~ EndTocMarkerBefore(doc, from, position)
  ELSE FALSE

is_in_table_of_contents(doc, position) ==
  InTocWindow(doc, TocStartSearch(position), position)

(* ------------------------------------------------------------------ *)
(* get_min_section_size and the strategies' results                    *)
(* ------------------------------------------------------------------ *)

(* The MIN_SECTION_SIZE environment variable: <<>> when unset, <<n>> when  *)
(* set to the decimal text of n.                                           *)
DefaultMinSectionSize == 50

get_min_section_size(env) == IF env = <<>> THEN DefaultMinSectionSize ELSE env[1]

(* What extract returns: Some((start_pos, end_pos)), None, or a panic      *)
(* (a slice that starts past the end of the document aborts the process).  *)
(* header_end, end_list and end_rank are not part of the returned value:   *)
(* they record the end of the matched start marker and the end rule that   *)
(* terminated the span (end_list "" : the fixed chunk size).               *)
Some(start_pos, end_pos, header_end, end_list, end_rank) ==
  [kind |-> "Some", start_pos |-> start_pos, end_pos |-> end_pos,
   header_end |-> header_end, end_list |-> end_list, end_rank |-> end_rank]

None ==
  [kind |-> "None", start_pos |-> 0, end_pos |-> 0,
   header_end |-> 0, end_list |-> "", end_rank |-> 0]

Panic ==
  [kind |-> "Panic", start_pos |-> 0, end_pos |-> 0,
   header_end |-> 0, end_list |-> "", end_rank |-> 0]

(* The least element of a non-empty set of numbers. *)
Least(S) == CHOOSE x \in S : \A y \in S : x <= y

(* The ranks of the patterns of a list that match in html_content[from..]. *)
MatchingRanks(patterns, doc, from) ==
  { r \in 1..Len(patterns) : MatchesIn(patterns[r], doc, from, DocLen(doc)) # {} }

(* re.find(&html_content[from..]) of the pattern of rank r: where it starts. *)
FindFrom(patterns, r, doc, from) ==
  Leftmost(MatchesIn(patterns[r], doc, from, DocLen(doc)))[1]

(* "for pattern in patterns { if let Some(mat) = re.find(..) { ..; break } }": *)
(* the first pattern in rank order that matches decides, by its first      *)
(* match.  <<rank, position>>, or <<0, 0>> when no pattern matches.         *)
FirstOfRanks(patterns, doc, from, ranks) ==
  IF ranks = {} THEN << 0, 0 >>
  ELSE << Least(ranks), FindFrom(patterns, Least(ranks), doc, from) >>

FirstRankedEnd(patterns, doc, from) ==
  FirstOfRanks(patterns, doc, from, MatchingRanks(patterns, doc, from))

(* ------------------------------------------------------------------ *)
(* PatternExtractionStrategy (the standard Item 8 strategy)            *)
(* ------------------------------------------------------------------ *)

start_patterns ==
  << [H8 |-> {<<0, 71>>}],
     [TL |-> {<<17, 68>>}, H8 |-> {<<15, 66>>}, B8 |-> {<<3, 54>>}],
     <<>>,
     [TL |-> {<<17, 68>>}, H8 |-> {<<15, 66>>}, B8 |-> {<<3, 54>>}],
     [TL |-> {<<17, 68>>}, H8 |-> {<<15, 66>>}, B8 |-> {<<3, 54>>}],
     [TL |-> {<<10, 15>>, <<17, 25>>}, H8 |-> {<<8, 13>>, <<15, 23>>}, B8 |-> {<<3, 11>>}, X9 |-> {<<8, 13>>}] >>

end_patterns ==
  << [X9 |-> {<<0, 73>>}, H9 |-> {<<0, 62>>}],
     [X9 |-> {<<15, 68>>}, H9 |-> {<<4, 57>>}],
     <<>>,
     [X9 |-> {<<15, 68>>}, H9 |-> {<<4, 57>>}],
     [X9 |-> {<<15, 23>>}, H9 |-> {<<4, 12>>}, H9A |-> {<<4, 10>>}],
     [X9 |-> {<<15, 30>>}, H9 |-> {<<4, 19>>}],
     [P3 |-> {<<0, 17>>}] >>

next_item_re ==
  << [H8 |-> {<<0, 22>>}, X9 |-> {<<0, 22>>}, H9 |-> {<<0, 11>>}, H9A |-> {<<0, 10>>}] >>

PatternLookAhead == 2000
PatternEndSkip == 100
PatternNextItemSkip == 1000
PatternChunk == 300000

(* has_financial_terms of PatternExtractionStrategy::extract *)
PatternHasFinancialTerms(doc, from, to) ==
  \/ contains(doc, from, to, "consolidated")
  \/ contains(doc, from, to, "balance sheet")
  \/ contains(doc, from, to, "income statement")
  \/ contains(doc, from, to, "cash flow")
  \/ contains(doc, from, to, "financial statement")
  \/ contains(doc, from, to, "audit")
  \/ contains(doc, from, to, "notes to")

(* A match that is not skipped: not in the table of contents, and followed *)
(* by financial terms within the look-ahead.                               *)
PatternGood(doc, r) ==
  { m \in find_iter(start_patterns[r], doc) :
      /\ ~ is_in_table_of_contents(doc, m[1])
      /\ PatternHasFinancialTerms(doc, m[2], Min2(m[2] + PatternLookAhead, DocLen(doc))) }

(* A variant of PatternStartOf that takes the leftmost match that is not   *)
(* skipped, whatever the rank of its pattern.                              *)
PatternStartOf_AnyRank(doc, ranks) ==
  IF ranks = {} THEN {}
  ELSE { Leftmost(UNION { PatternGood(doc, r) : r \in ranks }) }

PatternStartOf(doc, ranks) ==
  IF ranks = {} THEN {} ELSE { Leftmost(PatternGood(doc, Least(ranks))) }

(* The start: the first pattern, in rank order, with a match that is not   *)
(* skipped; of that pattern, the first such match.  {} when there is none. *)
PatternStart(doc) ==
  PatternStartOf(doc, { r \in 1..Len(start_patterns) : PatternGood(doc, r) # {} })

(* The final size test. *)
PatternSized(start_pos, end_pos, header_end, end_list, end_rank, min_section_size) ==
  IF end_pos > start_pos /\ end_pos - start_pos > min_section_size
  THEN Some(start_pos, end_pos, header_end, end_list, end_rank)
  ELSE None

(* No end pattern matched: the next Item heading, else the chunk size. *)
PatternFallback(doc, mat, nexts, min_section_size) ==
  IF mat[1] + PatternNextItemSkip > DocLen(doc) THEN Panic
  ELSE IF nexts # {}
  THEN PatternSized(mat[1], Leftmost(nexts)[1], mat[2], "next_item_re", 1, min_section_size)
  ELSE PatternSized(mat[1], Min2(mat[1] + PatternChunk, DocLen(doc)), mat[2], "", 0,
                    min_section_size)

(* The end, given the start match mat and the first ranked end match. *)
PatternEnd(doc, mat, end, min_section_size) ==
  IF mat[1] + PatternEndSkip > DocLen(doc) THEN Panic
  ELSE IF end[1] # 0
  THEN PatternSized(mat[1], end[2], mat[2], "end_patterns", end[1], min_section_size)
  ELSE PatternFallback(doc, mat,
                       MatchesIn(next_item_re[1], doc, mat[1] + PatternNextItemSkip, DocLen(doc)),
                       min_section_size)

PatternFrom(doc, st, min_section_size) ==
  IF st = {} THEN None
  ELSE PatternEnd(doc, Leftmost(st),
                  FirstRankedEnd(end_patterns, doc, Leftmost(st)[1] + PatternEndSkip),
                  min_section_size)

PatternExtract(doc, env) ==
  PatternFrom(doc, PatternStart(doc), get_min_section_size(env))

(* ------------------------------------------------------------------ *)
(* TocExtractionStrategy                                               *)
(* ------------------------------------------------------------------ *)

toc_re ==
  << [TL |-> {<<0, 72>>}] >>

(* The anchor pattern built from the href value "#item8" of the link that  *)
(* toc_re matched: (id|name)="item8".                                      *)
anchor_re ==
  << [H8 |-> {<<0, 15>>}, X9 |-> {<<0, 15>>}] >>

toc_end_patterns ==
  << [X9 |-> {<<0, 23>>}, H9 |-> {<<0, 12>>}, H9A |-> {<<0, 10>>}],
     [X9 |-> {<<15, 30>>}, H9 |-> {<<4, 19>>}],
     [P3 |-> {<<0, 17>>}] >>

TocChunk == 200000

(* A variant of TocStartPos that starts the span after the anchor element. *)
TocStartPos_AfterAnchor(anchor_mat) == anchor_mat[2]

(* The start of the span: the start of the anchor's match. *)
TocStartPos(anchor_mat) == anchor_mat[1]

TocSpan(doc, anchor_mat, start_pos, end) ==
  IF end[1] # 0
  THEN Some(start_pos, end[2], anchor_mat[2], "toc_end_patterns", end[1])
  ELSE Some(start_pos, Min2(start_pos + TocChunk, DocLen(doc)), anchor_mat[2], "", 0)

TocFromAnchor(doc, anchor_mat) ==
  TocSpan(doc, anchor_mat, TocStartPos(anchor_mat),
          FirstRankedEnd(toc_end_patterns, doc, TocStartPos(anchor_mat)))

TocFrom(doc, links, anchors) ==
  IF links = {} \/ anchors = {} THEN None ELSE TocFromAnchor(doc, Leftmost(anchors))

TocExtract(doc, env) ==
  TocFrom(doc, find_iter(toc_re[1], doc), find_iter(anchor_re[1], doc))

(* ------------------------------------------------------------------ *)
(* ActualItem8ExtractionStrategy                                       *)
(* ------------------------------------------------------------------ *)

part2_re ==
  << [P2 |-> {<<0, 16>>}] >>

item8_patterns ==
  << [H8 |-> {<<0, 71>>}],
     <<>>,
     <<>>,
     <<>>,
     <<>>,
     [TL |-> {<<17, 68>>}, H8 |-> {<<15, 66>>}, B8 |-> {<<3, 54>>}] >>

broader_patterns ==
  << [TL |-> {<<10, 15>>, <<17, 25>>}, H8 |-> {<<8, 13>>, <<15, 23>>}, B8 |-> {<<3, 11>>}, X9 |-> {<<8, 13>>}],
     [TL |-> {<<25, 68>>}, H8 |-> {<<23, 66>>}, B8 |-> {<<11, 54>>}] >>

actual_end_patterns ==
  << [X9 |-> {<<0, 30>>}, H9 |-> {<<0, 19>>}],
     [P3 |-> {<<0, 17>>}],
     <<>>,
     [P3 |-> {<<4, 12>>}] >>

ActualLookAhead == 5000
ActualBroaderLookAhead == 10000
ActualChunk == 300000

(* The preview test of the item8_patterns loop. *)
ActualPreviewOk(doc, from, to) ==
  \/ contains(doc, from, to, "consolidated")
  \/ contains(doc, from, to, "balance sheet")
  \/ contains(doc, from, to, "statement of")
  \/ contains(doc, from, to, "cash flow")
  \/ contains(doc, from, to, "report of independent")
  \/ (contains(doc, from, to, "opinion") /\ contains(doc, from, to, "audit"))

(* The preview test of the broader_patterns loop. *)
ActualBroaderPreviewOk(doc, from, to) ==
  /\ \/ contains(doc, from, to, "consolidated balance sheet")
     \/ contains(doc, from, to, "statement of operations")
     \/ contains(doc, from, to, "statement of income")
     \/ contains(doc, from, to, "statement of cash flow")
  /\ \/ contains(doc, from, to, "<table")
     \/ contains(doc, from, to, "notes to")

(* A variant of ActualSearchFromOf that always searches the whole document. *)
ActualSearchFromOf_WholeDocument(part2_matches) == 0

(* search_from: PART II's position when the document has the heading, else 0. *)
ActualSearchFromOf(part2_matches) ==
  IF part2_matches # {} THEN Leftmost(part2_matches)[1] ELSE 0

ActualSearchFrom(doc) == ActualSearchFromOf(find_iter(part2_re[1], doc))

ActualGood(doc, search_from, r) ==
  { m \in MatchesIn(item8_patterns[r], doc, search_from, DocLen(doc)) :
      /\ ~ is_in_table_of_contents(doc, m[1])
      /\ ActualPreviewOk(doc, m[2], Min2(m[2] + ActualLookAhead, DocLen(doc))) }

ActualBroaderGood(doc, search_from, r) ==
  { m \in MatchesIn(broader_patterns[r], doc, search_from, DocLen(doc)) :
      /\ ~ is_in_table_of_contents(doc, m[1])
      /\ ActualBroaderPreviewOk(doc, m[2], Min2(m[2] + ActualBroaderLookAhead, DocLen(doc))) }

ActualStartOf(doc, search_from, ranks, branks) ==
  IF ranks # {} THEN { Leftmost(ActualGood(doc, search_from, Least(ranks))) }
  ELSE IF branks # {} THEN { Leftmost(ActualBroaderGood(doc, search_from, Least(branks))) }
  ELSE {}

(* The chosen start match <<actual_pos, candidate_header_end>>, as a set   *)
(* of at most one element.                                                 *)
ActualStartFrom(doc, search_from) ==
  ActualStartOf(doc, search_from,
                { r \in 1..Len(item8_patterns) : ActualGood(doc, search_from, r) # {} },
                { r \in 1..Len(broader_patterns) : ActualBroaderGood(doc, search_from, r) # {} })

ActualStart(doc) == ActualStartFrom(doc, ActualSearchFrom(doc))

ActualSized(start, end_pos, header_end, end_rank, min_section_size) ==
  IF end_pos > start /\ end_pos - start > min_section_size
  THEN Some(start, end_pos, header_end,
            IF end_rank # 0 THEN "actual_end_patterns" ELSE "", end_rank)
  ELSE None

ActualEnd(doc, mat, end, min_section_size) ==
  ActualSized(mat[1],
              IF end[1] # 0 THEN end[2] ELSE Min2(mat[1] + ActualChunk, DocLen(doc)),
              mat[2], end[1], min_section_size)

ActualFrom(doc, st, min_section_size) ==
  IF st = {} THEN None
  ELSE ActualEnd(doc, Leftmost(st),
                 FirstRankedEnd(actual_end_patterns, doc, Leftmost(st)[2]),
                 min_section_size)

ActualExtract(doc, env) ==
  ActualFrom(doc, ActualStart(doc), get_min_section_size(env))

(* ------------------------------------------------------------------ *)
(* FinancialStatementExtractionStrategy                                *)
(* ------------------------------------------------------------------ *)

statement_patterns ==
  << <<>>,
     <<>>,
     <<>>,
     [FIN |-> {<<0, 36>>}, HF |-> {<<0, 36>>}],
     <<>> >>

fin_end_patterns ==
  << [P3 |-> {<<0, 17>>}],
     [X9 |-> {<<0, 23>>}, H9 |-> {<<0, 12>>}, H9A |-> {<<0, 10>>}] >>

FinChunk == 200000

(* re.find(html_content) of every statement pattern that matches. *)
FinFirstMatches(doc) ==
  { Leftmost(find_iter(statement_patterns[r], doc)) :
      r \in { q \in 1..Len(statement_patterns) : find_iter(statement_patterns[q], doc) # {} } }

FinEarliest(kept) == IF kept = {} THEN {} ELSE { Leftmost(kept) }

(* best_match: of the patterns' first matches that are not in the table of *)
(* contents, the one that starts first.                                    *)
FinBestMatch(doc) ==
  FinEarliest({ m \in FinFirstMatches(doc) : ~ is_in_table_of_contents(doc, m[1]) })

(* The ranks of the end patterns whose first match after the start lies    *)
(* more than the minimum size after it.                                    *)
FinEndRanks(doc, start_pos, min_section_size) ==
  { r \in MatchingRanks(fin_end_patterns, doc, start_pos) :
      FindFrom(fin_end_patterns, r, doc, start_pos) > start_pos + min_section_size }

(* A variant of FinSpan whose fallback is not bounded by the document's    *)
(* length.                                                                 *)
FinSpan_Unclamped(doc, mat, end) ==
  IF end[1] # 0
  THEN Some(mat[1], end[2], mat[2], "fin_end_patterns", end[1])
  ELSE Some(mat[1], mat[1] + FinChunk, mat[2], "", 0)

(* The span, given the start match and the first ranked end match. *)
FinSpan(doc, mat, end) ==
  IF end[1] # 0
  THEN Some(mat[1], end[2], mat[2], "fin_end_patterns", end[1])
  ELSE Some(mat[1], Min2(mat[1] + FinChunk, DocLen(doc)), mat[2], "", 0)

FinFrom(doc, best_match, min_section_size) ==
  IF best_match = {} THEN None
  ELSE FinSpan(doc, Leftmost(best_match),
               FirstOfRanks(fin_end_patterns, doc, Leftmost(best_match)[1],
                            FinEndRanks(doc, Leftmost(best_match)[1], min_section_size)))

FinExtract(doc, env) ==
  FinFrom(doc, FinBestMatch(doc), get_min_section_size(env))

(* ------------------------------------------------------------------ *)
(* PartIIExtractionStrategy                                            *)
(* ------------------------------------------------------------------ *)

item8_re ==
  << [TL |-> {<<10, 15>>, <<17, 24>>}, H8 |-> {<<8, 13>>, <<15, 22>>}, B8 |-> {<<3, 10>>}, X9 |-> {<<8, 13>>}] >>

part2_end_patterns ==
  << [X9 |-> {<<0, 23>>}, H9 |-> {<<0, 12>>}, H9A |-> {<<0, 10>>}],
     [X9 |-> {<<15, 30>>}, H9 |-> {<<4, 19>>}],
     [P3 |-> {<<0, 17>>}] >>

PartIILookAhead == 5000
PartIIEndSkip == 1000
PartIIChunk == 300000

PartIIPreviewOk(doc, from, to) ==
  \/ contains(doc, from, to, "financial statements")
  \/ contains(doc, from, to, "balance sheet")
  \/ contains(doc, from, to, "statement of")
  \/ contains(doc, from, to, "cash flow")
  \/ contains(doc, from, to, "report of independent")
  \/ (contains(doc, from, to, "opinion") /\ contains(doc, from, to, "audit"))

(* search_from_end: where the search for the end marker begins. *)
PartIISearchFromEnd(doc, start_pos) == Min2(start_pos + PartIIEndSkip, DocLen(doc))

PartIISpanOf(doc, item8_mat, end) ==
  IF end[1] # 0
  THEN Some(item8_mat[1], end[2], item8_mat[2], "part2_end_patterns", end[1])
  ELSE Some(item8_mat[1], Min2(item8_mat[1] + PartIIChunk, DocLen(doc)), item8_mat[2], "", 0)

(* The span an Item 8 reference at item8_mat resolves to. *)
PartIISpan(doc, item8_mat) ==
  PartIISpanOf(doc, item8_mat,
               FirstRankedEnd(part2_end_patterns, doc, PartIISearchFromEnd(doc, item8_mat[1])))

PartIISizeOk(span, min_section_size) ==
  span.end_pos > span.start_pos /\ span.end_pos - span.start_pos > min_section_size

(* The Item 8 references after PART II for which the loop returns. *)
PartIIGood(doc, search_from, min_section_size) ==
  { m \in MatchesIn(item8_re[1], doc, search_from, DocLen(doc)) :
      /\ ~ is_in_table_of_contents(doc, m[1])
      /\ PartIIPreviewOk(doc, m[2], Min2(m[2] + PartIILookAhead, DocLen(doc)))
      /\ PartIISizeOk(PartIISpan(doc, m), min_section_size) }

PartIIFirst(doc, good) == IF good = {} THEN None ELSE PartIISpan(doc, Leftmost(good))

PartIIFrom(doc, part2, min_section_size) ==
  IF part2 = {} THEN None
  ELSE PartIIFirst(doc, PartIIGood(doc, Leftmost(part2)[1], min_section_size))

PartIIExtract(doc, env) ==
  PartIIFrom(doc, find_iter(part2_re[1], doc), get_min_section_size(env))

(* ------------------------------------------------------------------ *)
(* SectionExtractor                                                    *)
(* ------------------------------------------------------------------ *)

(* A variant of strategies whose fourth slot is the financial-statement    *)
(* strategy.                                                               *)
strategies_FinFourth ==
  << "Toc", "ActualItem8", "Pattern", "FinancialStatement", "PartII", "FinancialStatement" >>

(* A variant of strategies that tries the pattern strategy before the      *)
(* actual-Item-8 strategy.                                                 *)
strategies_PatternSecond ==
  << "Toc", "Pattern", "ActualItem8", "Toc", "PartII", "FinancialStatement" >>

(* SectionExtractor::new: the strategies, in the order they are tried. *)
strategies == << "Toc", "ActualItem8", "Pattern", "Toc", "PartII", "FinancialStatement" >>

(* ExtractionStrategy::name *)
name(strategy) ==
  CASE strategy = "Toc" -> "ToC Strategy"
    [] strategy = "ActualItem8" -> "Actual Item 8 Content Strategy"
    [] strategy = "Pattern" -> "Standard Item 8 Strategy"
    [] strategy = "PartII" -> "Part II Strategy"
    [] strategy = "FinancialStatement" -> "Financial Statement Strategy"

(* ExtractionStrategy::extract, dispatched on the strategy. *)
extract(strategy, doc, env) ==
  CASE strategy = "Toc" -> TocExtract(doc, env)
    [] strategy = "ActualItem8" -> ActualExtract(doc, env)
    [] strategy = "Pattern" -> PatternExtract(doc, env)
    [] strategy = "PartII" -> PartIIExtract(doc, env)
    [] strategy = "FinancialStatement" -> FinExtract(doc, env)

(* A variant of TooSmall without the end_pos <= start_pos test. *)
TooSmall_SizeOnly(start_pos, end_pos, min_section_size) ==
  end_pos - start_pos < min_section_size

(* The size gate of extract_item_8: TRUE when the span is rejected. *)
TooSmall(start_pos, end_pos, min_section_size) ==
  end_pos <= start_pos \/ end_pos - start_pos < min_section_size

has_financial_terms(doc, from, to) ==
  \/ contains(doc, from, to, "consolidated balance sheet")
  \/ contains(doc, from, to, "statement of operations")
  \/ contains(doc, from, to, "statement of income")
  \/ contains(doc, from, to, "statement of cash flow")
  \/ contains(doc, from, to, "notes to consolidated")
  \/ /\ contains(doc, from, to, "report")
     /\ contains(doc, from, to, "independent")
     /\ contains(doc, from, to, "audit")

has_financial_tables(doc, from, to) ==
  /\ contains(doc, from, to, "<table")
  /\ \/ contains(doc, from, to, "assets")
     \/ contains(doc, from, to, "liabilities")
     \/ contains(doc, from, to, "equity")
     \/ contains(doc, from, to, "revenue")
     \/ contains(doc, from, to, "expense")

(* The content gate of extract_item_8: TRUE when the span is accepted. *)
ContentOk(doc, start_pos, end_pos) ==
  has_financial_terms(doc, start_pos, end_pos) \/ has_financial_tables(doc, start_pos, end_pos)

(* ------------------------------------------------------------------ *)
(* The documents and environments the model is run on                  *)
(* ------------------------------------------------------------------ *)

(* All sequences over S of length at most n. *)
SeqUpTo(S, n) == UNION { [1..k -> S] : k \in 0..n }

Opt(t) == { <<>>, <<t>> }

(* The table-of-contents part of a document: none; a bare link; a heading  *)
(* and a link; the same followed by a horizontal rule; a rule before the   *)
(* heading.                                                                *)
TocForms ==
  { <<>>, <<"TL">>, <<"TH", "TL">>, <<"TH", "TL", "HR">>, <<"HR", "TH", "TL">> }

(* A document: table of contents, PART II heading, Item 8 heading (or the  *)
(* element that carries the Item 8 anchor), body,                          *)
(* Item 9 heading, Item 9's text, Item 9A heading, PART III heading; each  *)
(* part may be missing.                                                    *)
DocsOf(tocs, bodies) ==
  { toc \o p2 \o hd \o body \o i9 \o t9 \o i9a \o p3 :
      toc \in tocs, p2 \in Opt("P2"), hd \in { <<>>, <<"H8">>, <<"B8">>, <<"X9">> },
      body \in bodies, i9 \in Opt("H9"), t9 \in Opt("PAD"),
      i9a \in Opt("H9A"), p3 \in Opt("P3") }

Docs == DocsOf(TocForms, SeqUpTo({"FIN", "PAD"}, MaxBody))

(* The values of MIN_SECTION_SIZE: unset (the default applies), "0", and   *)
(* "1000" (what main sets).                                                *)
EnvValues == { <<>>, <<0>>, <<1000>> }

(* ------------------------------------------------------------------ *)
(* State                                                               *)
(* ------------------------------------------------------------------ *)

VARIABLES
  doc,              \* html_content
  env,              \* the MIN_SECTION_SIZE environment variable
  pc,               \* "idle", "loop" (inside extract_item_8), "done", "unit"
  slot,             \* index into strategies of the strategy tried next
  min_section_size, \* extract_item_8's local, read once on entry
  debug_info,       \* extract_item_8's HashMap: strategy name -> reason
  attempts,         \* history: what each slot tried so far returned
  result,           \* what extract_item_8 returned
  unit,             \* what a direct call of one strategy's extract returned
  returned,         \* history: results of the earlier calls of extract_item_8
  args,             \* extract_item_8's filing_year, company_name and ticker
  batch             \* main's state: filings, position, counters, outcome

vars == << doc, env, pc, slot, min_section_size, debug_info, attempts, result,
           unit, returned, args, batch >>

Pending == [kind |-> "Pending", slot |-> 0, span |-> None, error |-> ""]

(* The arguments of the repository's own calls in its tests. *)
TestArgs == [filing_year |-> 2023, company_name |-> "Test Company", ticker |-> "TEST"]

(* A variant of Ok that stamps the ticker as the company name and the      *)
(* company name as the ticker.                                             *)
Ok_SwappedNames(i, span, a) ==
  [kind |-> "Ok", slot |-> i, span |-> span, error |-> "",
   section_name |-> "Item 8",
   section_title |-> "Financial Statements and Supplementary Data",
   filing_year |-> a.filing_year, company_name |-> a.ticker, ticker |-> a.company_name]

(* Ok(ExtractedSection): content is html_content[span.start_pos..span.end_pos]. *)
Ok(i, span, a) ==
  [kind |-> "Ok", slot |-> i, span |-> span, error |-> "",
   section_name |-> "Item 8",
   section_title |-> "Financial Statements and Supplementary Data",
   filing_year |-> a.filing_year, company_name |-> a.company_name, ticker |-> a.ticker]

(* main's state when main is not running. *)
NoBatch == [status |-> "none"]

(* Err(ExtractError::SectionNotFound("Item 8")) *)
Err == [kind |-> "Err", slot |-> 0, span |-> None, error |-> "SectionNotFound"]

(* The process aborted inside the strategy of slot i. *)
Aborted(i) == [kind |-> "Panic", slot |-> i, span |-> None, error |-> ""]

NoUnit == [strategy |-> "", out |-> None]

Init ==
  /\ doc \in Docs
  /\ env \in EnvValues
  /\ pc = "idle"
  /\ slot = 0
  /\ min_section_size = 0
  /\ debug_info = <<>>
  /\ attempts = <<>>
  /\ result = Pending
  /\ unit = NoUnit
  /\ returned = <<>>
  /\ args = TestArgs
  /\ batch = NoBatch

(* ------------------------------------------------------------------ *)
(* extract_item_8                                                      *)
(* ------------------------------------------------------------------ *)

(* Entry: the debug map is created and the minimum size is read. *)
Call ==
  /\ pc = "idle"
  /\ Len(returned) < MaxCalls
  /\ pc' = "loop"
  /\ slot' = 1
  /\ min_section_size' = get_min_section_size(env)
  /\ debug_info' = <<>>
  /\ attempts' = <<>>
  /\ result' = Pending
  /\ UNCHANGED << doc, env, unit, returned >>
  /\ UNCHANGED << args, batch >>

(* HashMap::insert *)
insert(map, key, value) == (key :> value) @@ map

(* A variant of Verdict that returns the span right after the size gate. *)
Verdict_NoContentGate(d, out, min_size) ==
  IF out.kind = "Panic" THEN "abort"
  ELSE IF out.kind = "None" THEN "not found"
  ELSE IF TooSmall(out.start_pos, out.end_pos, min_size) THEN "too small"
  ELSE "accept"

(* What the loop body does with the strategy's outcome out:                *)
(* "abort", "too small", "lacks indicators", "not found" or "accept".      *)
Verdict(d, out, min_size) ==
  IF out.kind = "Panic" THEN "abort"
  ELSE IF out.kind = "None" THEN "not found"
  ELSE IF TooSmall(out.start_pos, out.end_pos, min_size) THEN "too small"
  ELSE IF ~ ContentOk(d, out.start_pos, out.end_pos) THEN "lacks indicators"
  ELSE "accept"

(* The reason the loop body records for a rejected outcome. *)
Reason(out, verdict) ==
  IF verdict = "too small" THEN << "Section too small", out.end_pos - out.start_pos >>
  ELSE IF verdict = "lacks indicators"
  THEN << "Found section lacks financial content indicators", 0 >>
  ELSE << "No match found", 0 >>

(* One iteration of the loop over the strategies. *)
TryStrategy ==
  /\ pc = "loop"
  /\ slot <= Len(strategies)
  /\ LET strategy == strategies[slot]
         out == extract(strategy, doc, env)
         verdict == Verdict(doc, out, min_section_size)
     IN  /\ attempts' = Append(attempts, [strategy |-> strategy, out |-> out,
                                        verdict |-> verdict])
         /\ IF verdict = "abort"
            THEN /\ pc' = "done"
                 /\ result' = Aborted(slot)
                 /\ UNCHANGED << slot, debug_info >>
            ELSE IF verdict = "accept"
            THEN /\ pc' = "done"
                 /\ result' = Ok(slot, out, args)
                 /\ UNCHANGED << slot, debug_info >>
            ELSE /\ debug_info' = insert(debug_info, name(strategy), Reason(out, verdict))
                 /\ slot' = slot + 1
                 /\ UNCHANGED << pc, result >>
  /\ UNCHANGED << doc, env, min_section_size, unit, returned >>
  /\ UNCHANGED << args, batch >>

(* After the loop: every strategy failed. *)
NotFound ==
  /\ pc = "loop"
  /\ slot > Len(strategies)
  /\ pc' = "done"
  /\ result' = Err
  /\ UNCHANGED << doc, env, slot, min_section_size, debug_info, attempts, unit, returned >>
  /\ UNCHANGED << args, batch >>

(* A direct call of one strategy's extract, as the unit tests make it. *)
UnitCall ==
  /\ pc = "idle"
  /\ returned = <<>>
  /\ \E strategy \in { strategies[i] : i \in 1..Len(strategies) } :
        unit' = [strategy |-> strategy, out |-> extract(strategy, doc, env)]
  /\ pc' = "unit"
  /\ UNCHANGED << doc, env, slot, min_section_size, debug_info, attempts, result, returned >>
  /\ UNCHANGED << args, batch >>

Next == Call \/ TryStrategy \/ NotFound \/ UnitCall

Spec == Init /\ [][Next]_vars

(* ------------------------------------------------------------------ *)
(* Repeated calls on one document                                      *)
(* ------------------------------------------------------------------ *)

(* The documents of the repeated-call specification: an optional bare      *)
(* contents link, an optional PART II heading, the Item 8 heading, a body  *)
(* and the Item 9 heading.                                                 *)
DocsRepeat ==
  { toc \o p2 \o <<"H8">> \o body \o <<"H9">> :
      toc \in Opt("TL"), p2 \in Opt("P2"), body \in SeqUpTo({"FIN", "PAD"}, MaxBody) }

InitRepeat ==
  /\ doc \in DocsRepeat
  /\ env \in EnvValues
  /\ pc = "idle"
  /\ slot = 0
  /\ min_section_size = 0
  /\ debug_info = <<>>
  /\ attempts = <<>>
  /\ result = Pending
  /\ unit = NoUnit
  /\ returned = <<>>
  /\ args = TestArgs
  /\ batch = NoBatch

(* std::env::set_var("MIN_SECTION_SIZE", ..) by the process, between two   *)
(* calls of extract_item_8.                                                *)
SetEnv ==
  /\ pc \in { "idle", "done" }
  /\ \E e \in EnvValues \ { <<>> } : e # env /\ env' = e
  /\ UNCHANGED << doc, pc, slot, min_section_size, debug_info, attempts, result, unit,
                  returned >>
  /\ UNCHANGED << args, batch >>

(* extract_item_8 returns to its caller, which may call it again on the    *)
(* same document.                                                          *)
Return ==
  /\ pc = "done"
  /\ result.kind # "Panic"
  /\ returned' = Append(returned, result)
  /\ pc' = "idle"
  /\ UNCHANGED << doc, env, slot, min_section_size, debug_info, attempts, result, unit >>
  /\ UNCHANGED << args, batch >>

NextRepeat == Call \/ TryStrategy \/ NotFound \/ SetEnv \/ Return

SpecRepeat == InitRepeat /\ [][NextRepeat]_vars

(* ------------------------------------------------------------------ *)
(* Calls that differ in their metadata arguments                       *)
(* ------------------------------------------------------------------ *)

(* The metadata a caller passes: the tests' arguments and another triple. *)
ArgValues ==
  { TestArgs,
    [filing_year |-> 2022, company_name |-> "Other Company", ticker |-> "OTHR"] }

InitMeta ==
  /\ doc \in DocsRepeat
  /\ env \in EnvValues
  /\ pc = "idle"
  /\ slot = 0
  /\ min_section_size = 0
  /\ debug_info = <<>>
  /\ attempts = <<>>
  /\ result = Pending
  /\ unit = NoUnit
  /\ returned = <<>>
  /\ args \in ArgValues
  /\ batch = NoBatch

(* The caller passes other metadata on its next call of extract_item_8. *)
SetArgs ==
  /\ pc = "idle"
  /\ \E a \in ArgValues : a # args /\ args' = a
  /\ UNCHANGED << doc, env, pc, slot, min_section_size, debug_info, attempts, result, unit,
                  returned, batch >>

NextMeta == Call \/ TryStrategy \/ NotFound \/ SetArgs \/ Return

SpecMeta == InitMeta /\ [][NextMeta]_vars

(* ------------------------------------------------------------------ *)
(* main: the batch over the filings found for a ticker                 *)
(* ------------------------------------------------------------------ *)

(* The documents a download returns: one whose Item 8 is extracted, one    *)
(* for which every strategy fails, and one inside which a strategy slices  *)
(* past the end of the document.                                           *)
BatchDocs ==
  { <<"TL", "H8", "FIN", "PAD", "H9">>, <<"H8", "PAD", "H9">>, <<"B8">> }

(* A filing of the list: whether its download succeeds, its year (<<>> is  *)
(* None) and the content the download returns.                             *)
Filing(download, year, content) ==
  [download |-> download, year |-> year, company_name |-> "Test Company",
   ticker |-> "TEST", content |-> content]

FilingValues ==
  { Filing("Err", << 2023 >>, <<>>), Filing("Ok", <<>>, <<"H8", "PAD", "H9">>) }
    \cup { Filing("Ok", << 2023 >>, content) : content \in BatchDocs }

(* filings is not empty when the loop is reached (main returns at line 90  *)
(* otherwise).                                                             *)
FilingLists == SeqUpTo(FilingValues, MaxFilings) \ { <<>> }

(* A variant of Outcome that reports an error whenever a filing failed. *)
Outcome_AnyFailure(success_count, failure_count) ==
  IF failure_count > 0 THEN "Err" ELSE "Ok"

(* What main returns after the loop. *)
Outcome(success_count, failure_count) ==
  IF success_count = 0 /\ failure_count > 0 THEN "Err" ELSE "Ok"

InitBatch ==
  /\ doc = <<>>
  /\ env \in EnvValues \ { <<>> }
  /\ pc = "batch"
  /\ slot = 0
  /\ min_section_size = 0
  /\ debug_info = <<>>
  /\ attempts = <<>>
  /\ result = Pending
  /\ unit = NoUnit
  /\ returned = <<>>
  /\ args = TestArgs
  /\ \E filings \in FilingLists, debug \in BOOLEAN :
        batch = [status |-> "running", filings |-> filings, debug |-> debug, idx |-> 1,
                 success_count |-> 0, failure_count |-> 0, attempted |-> <<>>,
                 outcome |-> ""]

(* The loop body up to the call of extract_item_8: the download, the year  *)
(* test and, in debug mode, the two file-system calls followed by `?`,     *)
(* which return from main when they fail.                                  *)
StartFiling ==
  /\ pc = "batch"
  /\ batch.status = "running"
  /\ batch.idx <= Len(batch.filings)
  /\ LET filing == batch.filings[batch.idx]
         seen == [batch EXCEPT !.attempted = Append(@, batch.idx)]
     IN  IF filing.download = "Err"
         THEN /\ batch' = [seen EXCEPT !.failure_count = @ + 1, !.idx = @ + 1]
              /\ UNCHANGED << doc, args, pc >>
         ELSE IF filing.year = <<>>
         THEN /\ batch' = [seen EXCEPT !.idx = @ + 1]
              /\ UNCHANGED << doc, args, pc >>
         ELSE \E io_ok \in IF batch.debug THEN BOOLEAN ELSE { TRUE } :
                IF io_ok
                THEN /\ batch' = seen
                     /\ doc' = filing.content
                     /\ args' = [filing_year |-> filing.year[1],
                                 company_name |-> filing.company_name,
                                 ticker |-> filing.ticker]
                     /\ pc' = "idle"
                ELSE /\ batch' = [seen EXCEPT !.status = "failed", !.outcome = "Err"]
                     /\ pc' = "exit"
                     /\ UNCHANGED << doc, args >>
  /\ UNCHANGED << env, slot, min_section_size, debug_info, attempts, result, unit, returned >>

(* The loop body after extract_item_8: one counter is incremented; a       *)
(* failure to save is only logged.  A panic inside extract_item_8 ends the *)
(* process.                                                                *)
FinishFiling ==
  /\ pc = "done"
  /\ batch.status = "running"
  /\ IF result.kind = "Panic"
     THEN /\ batch' = [batch EXCEPT !.status = "aborted"]
          /\ pc' = "exit"
     ELSE /\ batch' = IF result.kind = "Ok"
                      THEN [batch EXCEPT !.success_count = @ + 1, !.idx = @ + 1]
                      ELSE [batch EXCEPT !.failure_count = @ + 1, !.idx = @ + 1]
          /\ pc' = "batch"
  /\ UNCHANGED << doc, env, slot, min_section_size, debug_info, attempts, result, unit,
                  returned, args >>

(* After the loop: main returns Err(AppError::Processing) or Ok(()). *)
Finish ==
  /\ pc = "batch"
  /\ batch.status = "running"
  /\ batch.idx > Len(batch.filings)
  /\ batch' = [batch EXCEPT !.status = "finished",
                            !.outcome = Outcome(batch.success_count, batch.failure_count)]
  /\ pc' = "exit"
  /\ UNCHANGED << doc, env, slot, min_section_size, debug_info, attempts, result, unit,
                  returned, args >>

NextBatch == StartFiling \/ Call \/ TryStrategy \/ NotFound \/ FinishFiling \/ Finish

SpecBatch == InitBatch /\ [][NextBatch]_vars

(* ------------------------------------------------------------------ *)
(* Documents made of statement headings and of tables                  *)
(* ------------------------------------------------------------------ *)

(* A document without an Item 8 heading: an optional contents heading, an  *)
(* optional statement heading listed under it, an optional horizontal      *)
(* rule, and a body of statement headings, statements and neutral text.    *)
DocsStatements ==
  { toc \o listed \o rule \o body :
      toc \in Opt("TH"), listed \in { <<>>, <<"HF">>, <<"FIN">> }, rule \in Opt("HR"),
      body \in SeqUpTo({"HF", "FIN", "PAD"}, MaxBody) }

(* A document whose Item 8 holds tables without a statement heading: an    *)
(* optional bare contents link, the Item 8 heading, a body of tables and   *)
(* neutral text, and the Item 9 heading.                                   *)
DocsTables ==
  { toc \o <<"H8">> \o body \o <<"H9">> :
      toc \in Opt("TL"), body \in SeqUpTo({"TB", "PAD"}, MaxBody) }

InitStatements ==
  /\ doc \in DocsStatements \cup DocsTables
  /\ env \in EnvValues
  /\ pc = "idle"
  /\ slot = 0
  /\ min_section_size = 0
  /\ debug_info = <<>>
  /\ attempts = <<>>
  /\ result = Pending
  /\ unit = NoUnit
  /\ returned = <<>>
  /\ args = TestArgs
  /\ batch = NoBatch

SpecStatements == InitStatements /\ [][Next]_vars

(* ------------------------------------------------------------------ *)
(* Direct calls of is_in_table_of_contents                             *)
(* ------------------------------------------------------------------ *)

(* k tokens of neutral text. *)
Pads(k) == [i \in 1..k |-> "PAD"]

(* A document for is_in_table_of_contents: contents headings and           *)
(* horizontal rules, a run of neutral text (none, short, or about as long  *)
(* as the look-back window), and again headings and rules before the       *)
(* Item 8 heading.                                                         *)
DocsToc ==
  { head \o Pads(k) \o tail \o <<"H8">> :
      head \in { <<>>, <<"TH">>, <<"HR">>, <<"HR", "TH">>, <<"TH", "HR">> },
      k \in { 0, 1, MaxPads - 1, MaxPads },
      tail \in { <<>>, <<"TH">>, <<"HR">>, <<"TH", "HR">> } }

InitToc ==
  /\ doc \in DocsToc
  /\ env = <<>>
  /\ pc = "idle"
  /\ slot = 0
  /\ min_section_size = 0
  /\ debug_info = <<>>
  /\ attempts = <<>>
  /\ result = Pending
  /\ unit = NoUnit
  /\ returned = <<>>
  /\ args = TestArgs
  /\ batch = NoBatch

(* is_in_table_of_contents(html_content, position) for the position at     *)
(* which token number index begins (index Len(doc) + 1: the end).          *)
Classify ==
  /\ pc = "idle"
  /\ \E index \in 1..(Len(doc) + 1) :
        unit' = [strategy |-> "is_in_table_of_contents",
                 out |-> [kind |-> "Bool", index |-> index, position |-> Pos(doc, index),
                          value |-> is_in_table_of_contents(doc, Pos(doc, index))]]
  /\ pc' = "unit"
  /\ UNCHANGED << doc, env, slot, min_section_size, debug_info, attempts, result, returned,
                  args, batch >>

NextToc == Classify

SpecToc == InitToc /\ [][NextToc]_vars


(* ------------------------------------------------------------------ *)
(* Properties                                                          *)
(* ------------------------------------------------------------------ *)

(* The positions of the tokens of kind t in d. *)
IndexOf(d, t) == { i \in 1..Len(d) : d[i] = t }

(* The real Item 8 section headings of a document. *)
RealHeaders(d) == IndexOf(d, "H8") \cup IndexOf(d, "B8")

(* Position p lies inside token i of d. *)
Inside(d, i, p) == Pos(d, i) <= p /\ p < Pos(d, i + 1)

(* The table of a span's terminating end rule. *)
EndRule(span) ==
  CASE span.end_list = "end_patterns" -> end_patterns[span.end_rank]
    [] span.end_list = "next_item_re" -> next_item_re[span.end_rank]
    [] span.end_list = "toc_end_patterns" -> toc_end_patterns[span.end_rank]
    [] span.end_list = "actual_end_patterns" -> actual_end_patterns[span.end_rank]
    [] span.end_list = "fin_end_patterns" -> fin_end_patterns[span.end_rank]
    [] span.end_list = "part2_end_patterns" -> part2_end_patterns[span.end_rank]

(* The matches of all the rules a strategy may take a start from. *)
StartMatches(d) ==
  UNION { find_iter(re, d) :
          re \in UNION { { list[r] : r \in 1..Len(list) } :
                         list \in { start_patterns, anchor_re, item8_patterns,
                                    broader_patterns, statement_patterns, item8_re } } }

(* C1: the start of a section that extract_item_8 returns is never a       *)
(* position that is_in_table_of_contents classifies as table of contents,  *)
(* whichever strategy produced the span.                                   *)
C1_StartNotInToc ==
  result.kind = "Ok" => ~ is_in_table_of_contents(doc, result.span.start_pos)

(* C2: extract_item_8 returns Ok only for a span that passed both gates:   *)
(* its size is at least the configured minimum and its full content        *)
(* passes the content validation, whatever attempts preceded it.           *)
C2_OkPassedBothGates ==
  result.kind = "Ok" =>
     /\ result.span.end_pos - result.span.start_pos >= get_min_section_size(env)
     /\ ContentOk(doc, result.span.start_pos, result.span.end_pos)

(* An Ok result that followed a span rejected as too small and a span      *)
(* rejected for its content.                                               *)
C2_Witness ==
  /\ result.kind = "Ok"
  /\ \E i \in DOMAIN attempts : attempts[i].verdict = "too small"
  /\ \E i \in DOMAIN attempts : attempts[i].verdict = "lacks indicators"

(* C3: for a document with a table-of-contents entry for Item 8 and a real *)
(* Item 8 heading with the same text, the returned content starts at the   *)
(* real heading (inside its element), never at the table-of-contents entry.*)
C3_StartsAtRealHeader ==
  (result.kind = "Ok" /\ IndexOf(doc, "TL") # {} /\ RealHeaders(doc) # {}) =>
     \E i \in RealHeaders(doc) : Inside(doc, i, result.span.start_pos)

(* C4: a returned section that an end rule terminated ends at the first    *)
(* byte of a match of that rule, and no match of that rule begins inside   *)
(* the returned span.                                                      *)
C4_NoEndMarkerInside ==
  (result.kind = "Ok" /\ result.span.end_list # "") =>
     /\ \E m \in find_iter(EndRule(result.span), doc) : m[1] = result.span.end_pos
     /\ \A m \in find_iter(EndRule(result.span), doc) :
           ~ (result.span.start_pos <= m[1] /\ m[1] < result.span.end_pos)

(* C5 as stated: the returned content begins after the end of the start    *)
(* marker's match, so it does not contain the start header's text.         *)
C5_StartsAfterHeader ==
  result.kind = "Ok" => result.span.start_pos >= result.span.header_end

(* C5 as amended: the returned content begins at the first byte of the     *)
(* match of the start marker that began it and contains that match whole.  *)
C5_StartsAtHeaderMatch ==
  result.kind = "Ok" =>
     /\ << result.span.start_pos, result.span.header_end >> \in StartMatches(doc)
     /\ result.span.header_end <= result.span.end_pos

C5_Witness ==
  /\ result.kind = "Ok"
  /\ \E i \in RealHeaders(doc) : result.span.start_pos = Pos(doc, i)

(* The document has a real Item 8 heading, then financial content, then    *)
(* an Item 9 heading.                                                      *)
HeadingContentItem9(d) ==
  \E h \in RealHeaders(d), f \in IndexOf(d, "FIN"), n \in IndexOf(d, "H9") : h < f /\ f < n

(* C6: for such a document the span that any strategy returns, and the     *)
(* span extract_item_8 returns, ends at or before the first byte of the    *)
(* Item 9 heading.                                                         *)
C6_EndsBeforeItem9 ==
  HeadingContentItem9(doc) =>
     /\ (pc = "unit" /\ unit.out.kind = "Some") =>
           \A n \in IndexOf(doc, "H9") : unit.out.end_pos <= Pos(doc, n)
     /\ result.kind = "Ok" =>
           \A n \in IndexOf(doc, "H9") : result.span.end_pos <= Pos(doc, n)

(* C7: the end of every returned section is strictly after its start, for  *)
(* every minimum size including 0, and the size gate rejects every span a  *)
(* strategy resolved with end <= start.                                    *)
C7_EndAfterStart ==
  /\ result.kind = "Ok" => result.span.end_pos > result.span.start_pos
  /\ \A i \in DOMAIN attempts :
        (attempts[i].out.kind = "Some" /\ attempts[i].out.end_pos <= attempts[i].out.start_pos)
           => attempts[i].verdict = "too small"

(* With minimum size 0, a strategy resolved an empty span. *)
C7_Witness ==
  /\ env = << 0 >>
  /\ pc = "done"
  /\ \E i \in DOMAIN attempts :
        attempts[i].out.kind = "Some" /\ attempts[i].out.end_pos <= attempts[i].out.start_pos

(* The real section, from the Item 8 heading to the Item 9 heading, has    *)
(* financial content and is shorter than the configured minimum.           *)
RealSectionTooSmall(d, e) ==
  \E h \in RealHeaders(d), f \in IndexOf(d, "FIN"), n \in IndexOf(d, "H9") :
     h < f /\ f < n /\ Pos(d, n) - Pos(d, h) < get_min_section_size(e)

(* C8: when the real section is located but shorter than the minimum, the  *)
(* extraction fails with SectionTooSmall, not with "section not found".    *)
C8_FailsWithSectionTooSmall ==
  (pc = "done" /\ RealSectionTooSmall(doc, env)) =>
     result.kind = "Err" /\ result.error = "SectionTooSmall"

(* The slots whose strategy yields a span that passes both gates. *)
ValidatedSlots(d, e) ==
  { i \in 1..Len(strategies) :
      LET out == extract(strategies[i], d, e)
      IN  /\ out.kind = "Some"
          /\ out.end_pos > out.start_pos
          /\ out.end_pos - out.start_pos >= get_min_section_size(e)
          /\ ContentOk(d, out.start_pos, out.end_pos) }

(* C9: when some slot's strategy yields a validated span, extract_item_8   *)
(* returns Ok with the span of the first such slot in priority order; it   *)
(* returns an error only when no slot does.                                *)
C9_FirstValidatedWins ==
  pc = "done" =>
     /\ ValidatedSlots(doc, env) # {} =>
           /\ result.kind = "Ok"
           /\ result.slot = Least(ValidatedSlots(doc, env))
           /\ result.span = extract(strategies[result.slot], doc, env)
     /\ result.kind = "Err" => ValidatedSlots(doc, env) = {}

(* C10: every call of extract_item_8 on the same document returns the same *)
(* result, whatever happened in the process between the calls.             *)
C10_SameResultEveryCall ==
  \A i \in DOMAIN returned, j \in DOMAIN returned :
     /\ returned[i].kind = returned[j].kind
     /\ returned[i].error = returned[j].error
     /\ returned[i].span.start_pos = returned[j].span.start_pos
     /\ returned[i].span.end_pos = returned[j].span.end_pos


(* C11: extract_item_8 always terminates by returning Ok or Err, and no    *)
(* strategy aborts the process, whatever the length of the document.       *)
C11_NeverAborts ==
  /\ pc = "done" => result.kind \in { "Ok", "Err" }
  /\ pc = "unit" => unit.out.kind # "Panic"

(* C12: when every strategy failed, the diagnostic has a failure reason    *)
(* for every strategy slot of the chain.                                   *)
C12_ReasonPerSlot ==
  result.kind = "Err" => Cardinality(DOMAIN debug_info) = Len(strategies)


(* The span a strategy resolves on d when its own size test rejects        *)
(* nothing (minimum size 0).                                               *)
ResolvedSpan(strategy, d) == extract(strategy, d, << 0 >>)

(* C13: the size gate is size >= minimum: a span whose length equals the   *)
(* minimum exactly and whose content passes validation is accepted,        *)
(* whichever strategy resolved it.                                         *)
C13_ExactMinimumAccepted ==
  \A i \in DOMAIN attempts :
     ( /\ ResolvedSpan(strategies[i], doc).kind = "Some"
       /\ ResolvedSpan(strategies[i], doc).end_pos
            - ResolvedSpan(strategies[i], doc).start_pos = min_section_size
       /\ ContentOk(doc, ResolvedSpan(strategies[i], doc).start_pos,
                    ResolvedSpan(strategies[i], doc).end_pos) )
     => attempts[i].verdict = "accept"


(* C14: a returned ExtractedSection has section_name "Item 8" and the      *)
(* filing_year, company_name and ticker of the call's arguments, its       *)
(* content is the span the accepted strategy resolved, and calls on the    *)
(* same document that differ only in their metadata select the same span.  *)
C14_MetadataStamped ==
  /\ (pc = "done" /\ result.kind = "Ok") =>
        /\ result.section_name = "Item 8"
        /\ result.filing_year = args.filing_year
        /\ result.company_name = args.company_name
        /\ result.ticker = args.ticker
        /\ result.span = attempts[Len(attempts)].out
  /\ \A i \in DOMAIN returned, j \in DOMAIN returned :
        /\ returned[i].kind = returned[j].kind
        /\ returned[i].span.start_pos = returned[j].span.start_pos
        /\ returned[i].span.end_pos = returned[j].span.end_pos

(* Two calls on one document returned Ok with different metadata. *)
C14_Witness ==
  /\ Len(returned) = 2
  /\ returned[1].kind = "Ok"
  /\ returned[2].kind = "Ok"
  /\ returned[1].ticker # returned[2].ticker
  /\ returned[1].filing_year # returned[2].filing_year

(* The filings of the list that move a counter when they are processed:   *)
(* the download failed, or the year is known.                              *)
Counted(filings) ==
  { i \in DOMAIN filings : filings[i].download = "Err" \/ filings[i].year # <<>> }

(* C15: in the batch, no failure on one filing stops the others: when     *)
(* main has ended, every filing of the list was attempted exactly once,    *)
(* in order, and every attempted filing whose download failed or whose     *)
(* year is known moved exactly one of success_count and failure_count.     *)
C15_EveryFilingAttempted ==
  /\ batch.status # "none" =>
        batch.attempted = [i \in 1..Len(batch.attempted) |-> i]
  /\ pc = "exit" =>
        /\ batch.attempted = [i \in DOMAIN batch.filings |-> i]
        /\ batch.success_count + batch.failure_count
              = Cardinality(Counted(batch.filings))

(* C16: once the loop over the filings has completed, main returns an     *)
(* error exactly when no filing succeeded and at least one failed.         *)
C16_ErrorIffTotalFailure ==
  batch.status = "finished" =>
     /\ batch.attempted = [i \in DOMAIN batch.filings |-> i]
     /\ batch.outcome = "Err"
           <=> (batch.success_count = 0 /\ batch.failure_count > 0)
     /\ batch.success_count > 0 => batch.outcome = "Ok"

(* C16 happens: a completed batch in which one filing failed and another  *)
(* succeeded, which ends Ok.                                               *)
C16_Witness ==
  /\ batch.status = "finished"
  /\ batch.success_count > 0
  /\ batch.failure_count > 0
  /\ batch.outcome = "Ok"

(* The verdicts with which the loop body goes on to the next slot. *)
Rejections == { "not found", "too small", "lacks indicators" }

(* C17: the slots are tried in the order ToC-guided, actual-Item-8,        *)
(* standard pattern, ToC-guided, Part II, financial-statement, each at     *)
(* most once; every slot tried before the last one was rejected, Ok is     *)
(* returned by the slot that was tried last, and the error is returned     *)
(* only after all six slots were tried and rejected.                       *)
C17_FixedOrderStopAtFirst ==
  /\ Len(attempts) <= 6
  /\ \A i \in DOMAIN attempts :
        attempts[i].strategy
           = << "Toc", "ActualItem8", "Pattern", "Toc", "PartII", "FinancialStatement" >>[i]
  /\ \A i \in DOMAIN attempts : i < Len(attempts) => attempts[i].verdict \in Rejections
  /\ (pc = "done" /\ result.kind = "Ok") =>
        /\ attempts[Len(attempts)].verdict = "accept"
        /\ result.slot = Len(attempts)
  /\ (pc = "done" /\ result.kind = "Err") =>
        /\ Len(attempts) = 6
        /\ \A i \in DOMAIN attempts : attempts[i].verdict \in Rejections

(* C17 happens: a call in which the first two slots were rejected, the    *)
(* third was accepted and no later slot was tried.                         *)
C17_Witness ==
  /\ pc = "done"
  /\ result.kind = "Ok"
  /\ result.slot = 3
  /\ Len(attempts) = 3

(* The end rules of the list that a span's end_list names. *)
EndList(span) ==
  CASE span.end_list = "end_patterns" -> end_patterns
    [] span.end_list = "next_item_re" -> next_item_re
    [] span.end_list = "toc_end_patterns" -> toc_end_patterns
    [] span.end_list = "actual_end_patterns" -> actual_end_patterns
    [] span.end_list = "fin_end_patterns" -> fin_end_patterns
    [] span.end_list = "part2_end_patterns" -> part2_end_patterns

(* Where the strategy that produced the span began to search for its end. *)
EndSearchFrom(d, span) ==
  CASE span.end_list = "end_patterns" -> span.start_pos + PatternEndSkip
    [] span.end_list = "next_item_re" -> span.start_pos + PatternNextItemSkip
    [] span.end_list = "toc_end_patterns" -> span.start_pos
    [] span.end_list = "actual_end_patterns" -> span.header_end
    [] span.end_list = "fin_end_patterns" -> span.start_pos
    [] span.end_list = "part2_end_patterns" ->
         Min2(span.start_pos + PartIIEndSkip, DocLen(d))

(* The first matches, from the search offset, of the end rules of the      *)
(* span's list; for the financial-statement strategy only those that       *)
(* clear its minimum distance from the start.                              *)
EndCandidates(d, span, min_size) ==
  { FindFrom(EndList(span), r, d, EndSearchFrom(d, span)) :
      r \in IF span.end_list = "fin_end_patterns"
            THEN FinEndRanks(d, span.start_pos, min_size)
            ELSE MatchingRanks(EndList(span), d, EndSearchFrom(d, span)) }

(* The span ends at the earliest of its candidates. *)
EndsAtEarliest(d, span, min_size) ==
  (span.kind = "Some" /\ span.end_list # "") =>
     span.end_pos = Least(EndCandidates(d, span, min_size))

(* C18: the end of the span a strategy returns is the earliest position   *)
(* at which any end rule of the strategy matches from the search offset,   *)
(* also when that match belongs to a lower-ranked rule than another rule   *)
(* that matches later.                                                     *)
C18_EndIsEarliestMatch ==
  /\ pc = "unit" => EndsAtEarliest(doc, unit.out, get_min_section_size(env))
  /\ \A i \in DOMAIN attempts : EndsAtEarliest(doc, attempts[i].out, min_section_size)

(* The starts of a set of matches. *)
StartsOf(matches) == { m[1] : m \in matches }

(* valid[r] is the set of the matches of the start pattern of rank r that  *)
(* are not skipped: start is the first of them, in document order, for     *)
(* the highest-ranked pattern that has any.                                *)
RankOrderStart(start, valid) ==
  \E r \in DOMAIN valid :
     /\ valid[r] # {}
     /\ start = Least(StartsOf(valid[r]))
     /\ \A q \in 1..(r - 1) : valid[q] = {}

(* The matches that are not skipped, by rank: the standard strategy's      *)
(* start patterns; the actual-Item-8 strategy's patterns followed by its   *)
(* broader patterns.                                                       *)
PatternValidByRank(d) == [r \in 1..Len(start_patterns) |-> PatternGood(d, r)]

ActualValidByRank(d) ==
  [r \in 1..(Len(item8_patterns) + Len(broader_patterns)) |->
     IF r <= Len(item8_patterns)
     THEN ActualGood(d, ActualSearchFrom(d), r)
     ELSE ActualBroaderGood(d, ActualSearchFrom(d), r - Len(item8_patterns))]

StartInRankOrder(d, strategy, out) ==
  out.kind = "Some" =>
     /\ strategy = "Pattern" => RankOrderStart(out.start_pos, PatternValidByRank(d))
     /\ strategy = "ActualItem8" => RankOrderStart(out.start_pos, ActualValidByRank(d))

(* C19: the start of the span a strategy returns is the first match in    *)
(* document order, outside the table of contents and passing the           *)
(* lookahead test, of the highest-ranked start pattern that has such a     *)
(* match; a lower-ranked pattern decides only when no higher-ranked        *)
(* pattern has one, even if its match comes earlier in the document.       *)
C19_StartByRankOrder ==
  /\ pc = "unit" => StartInRankOrder(doc, unit.strategy, unit.out)
  /\ \A i \in DOMAIN attempts :
        StartInRankOrder(doc, attempts[i].strategy, attempts[i].out)

(* C19 happens: the standard strategy returned a span although a match    *)
(* of a lower-ranked pattern that is not skipped lies before its start.    *)
C19_Witness ==
  /\ pc = "unit"
  /\ unit.strategy = "Pattern"
  /\ unit.out.kind = "Some"
  /\ \E r \in 1..Len(start_patterns) :
        \E m \in PatternGood(doc, r) : m[1] < unit.out.start_pos

(* The end rule that terminated the span was searched from beyond the      *)
(* start and matched neither at the start nor inside the start's heading.  *)
EndSearchedAfterStart(d, span) ==
  (span.kind = "Some" /\ span.end_list # "") =>
     /\ EndSearchFrom(d, span) > span.start_pos
     /\ span.end_pos > span.start_pos
     /\ span.end_pos >= span.header_end

(* C20: every strategy begins its search for an end marker a positive     *)
(* offset after the start, so that the end rule that terminates a span     *)
(* never matches at the start position or inside the start's own heading.  *)
C20_EndSearchAfterStart ==
  /\ pc = "unit" => EndSearchedAfterStart(doc, unit.out)
  /\ \A i \in DOMAIN attempts : EndSearchedAfterStart(doc, attempts[i].out)

(* The fixed maximum chunk size of a strategy. *)
ChunkOf(strategy) ==
  CASE strategy = "Pattern" -> PatternChunk
    [] strategy = "Toc" -> TocChunk
    [] strategy = "ActualItem8" -> ActualChunk
    [] strategy = "PartII" -> PartIIChunk
    [] strategy = "FinancialStatement" -> FinChunk

(* None of the strategy's end rules matches from where the strategy        *)
(* searches, given the start and the end of the start's heading.           *)
NoEndRuleMatches(d, strategy, start_pos, header_end) ==
  CASE strategy = "Pattern" ->
         /\ MatchingRanks(end_patterns, d, start_pos + PatternEndSkip) = {}
         /\ MatchingRanks(next_item_re, d, start_pos + PatternNextItemSkip) = {}
    [] strategy = "Toc" -> MatchingRanks(toc_end_patterns, d, start_pos) = {}
    [] strategy = "ActualItem8" -> MatchingRanks(actual_end_patterns, d, header_end) = {}
    [] strategy = "PartII" ->
         MatchingRanks(part2_end_patterns, d, Min2(start_pos + PartIIEndSkip, DocLen(d))) = {}
    [] strategy = "FinancialStatement" -> MatchingRanks(fin_end_patterns, d, start_pos) = {}

(* A returned span for which no end rule matches ends at the chunk limit,  *)
(* and no returned span ends beyond the document.                          *)
ChunkFallback(d, strategy, out) ==
  out.kind = "Some" =>
     /\ out.end_pos <= DocLen(d)
     /\ NoEndRuleMatches(d, strategy, out.start_pos, out.header_end) =>
           out.end_pos = Min2(out.start_pos + ChunkOf(strategy), DocLen(d))

(* The standard strategy has a start and none of its end rules matches. *)
PatternHasNoEnd(d) ==
  /\ PatternStart(d) # {}
  /\ NoEndRuleMatches(d, "Pattern", Leftmost(PatternStart(d))[1], 0)

(* C21: when a strategy has a start and none of its end rules matches,    *)
(* the strategy resolves the end to min(start + its chunk size, document   *)
(* length), which never exceeds the document length.                       *)
C21_ChunkFallbackBounded ==
  /\ pc = "unit" =>
        /\ ChunkFallback(doc, unit.strategy, unit.out)
        /\ (unit.strategy = "Pattern" /\ PatternHasNoEnd(doc)) => unit.out.kind # "Panic"
  /\ \A i \in DOMAIN attempts : ChunkFallback(doc, attempts[i].strategy, attempts[i].out)

(* The text from position from, at most window bytes of it, passes one of  *)
(* the lookahead tests of the source or the content gate.                  *)
PassesSomeValidator(d, from, to) ==
  \/ PatternHasFinancialTerms(d, from, to)
  \/ ActualPreviewOk(d, from, to)
  \/ ActualBroaderPreviewOk(d, from, to)
  \/ PartIIPreviewOk(d, from, to)
  \/ ContentOk(d, from, to)

(* The start candidate of the span was validated on the window that        *)
(* follows it (the longest lookahead of the source).                       *)
LookaheadPassed(d, span) ==
  PassesSomeValidator(d, span.header_end,
                      Min2(span.header_end + ActualBroaderLookAhead, DocLen(d)))

(* C22: every section extract_item_8 returns was validated twice: the      *)
(* text that follows its start candidate passes validation on a bounded    *)
(* lookahead window, and its full span passes the content gate.            *)
C22_ValidatedTwice ==
  (pc = "done" /\ result.kind = "Ok") =>
     /\ LookaheadPassed(doc, result.span)
     /\ ContentOk(doc, result.span.start_pos, result.span.end_pos)

(* The orchestrator's size gate let the span through. *)
SizeOk(out, min_size) == out.kind = "Some" /\ ~ TooSmall(out.start_pos, out.end_pos, min_size)

(* C23: a span that reached the content gate is accepted exactly when it   *)
(* contains a canonical phrase, or contains a table element with a         *)
(* characteristic keyword and is longer than the minimum length; a span    *)
(* with neither is rejected and the next slot is tried.                    *)
C23_ContentGateIff ==
  \A i \in DOMAIN attempts :
     SizeOk(attempts[i].out, min_section_size) =>
        /\ attempts[i].verdict = "accept" <=>
              \/ has_financial_terms(doc, attempts[i].out.start_pos, attempts[i].out.end_pos)
              \/ /\ has_financial_tables(doc, attempts[i].out.start_pos,
                                         attempts[i].out.end_pos)
                 /\ attempts[i].out.end_pos - attempts[i].out.start_pos > min_section_size
        /\ attempts[i].verdict # "accept" =>
              /\ attempts[i].verdict = "lacks indicators"
              /\ (i < Len(strategies) /\ pc = "done") => Len(attempts) > i

(* The matches of the ToC indicators, and of the end-of-ToC markers, in    *)
(* the bytes [from, position) of d.                                        *)
IndicatorsIn(d, from, position) ==
  UNION { MatchesIn(toc_indicators[r], d, from, position) : r \in 1..Len(toc_indicators) }

MarkersIn(d, from, position) ==
  UNION { MatchesIn(end_toc_markers[r], d, from, position) : r \in 1..Len(end_toc_markers) }

(* Where the nearest ToC indicator before the position ends. *)
NearestIndicatorEnd(d, position) ==
  CHOOSE e \in { m[2] : m \in IndicatorsIn(d, TocStartSearch(position), position) } :
     \A m \in IndicatorsIn(d, TocStartSearch(position), position) : m[2] <= e

(* An end-of-ToC marker lies between the nearest preceding ToC indicator   *)
(* and the position.                                                       *)
MarkerAfterNearestIndicator(d, position) ==
  \E m \in MarkersIn(d, TocStartSearch(position), position) :
     m[1] >= NearestIndicatorEnd(d, position) /\ m[2] < position

(* C24: when a ToC indicator precedes the position, the position is        *)
(* cleared (classified as not ToC) exactly when an end-of-ToC marker lies  *)
(* between the nearest preceding indicator and the position; a marker      *)
(* that occurs before that indicator does not clear it.                    *)
C24_ClearedOnlyByMarkerAfterIndicator ==
  (pc = "unit" /\ unit.strategy = "is_in_table_of_contents"
   /\ IndicatorsIn(doc, TocStartSearch(unit.out.position), unit.out.position) # {}) =>
     (unit.out.value = FALSE <=> MarkerAfterNearestIndicator(doc, unit.out.position))

(* The Item 8 references after PART II that the Part II strategy keeps as  *)
(* start candidates, before it looks at the size of their spans.           *)
PartIICandidates(d, search_from) ==
  { m \in MatchesIn(item8_re[1], d, search_from, DocLen(d)) :
      /\ ~ is_in_table_of_contents(d, m[1])
      /\ PartIIPreviewOk(d, m[2], Min2(m[2] + PartIILookAhead, DocLen(d))) }

(* The strategy located a start candidate in d. *)
StartLocated(d, strategy) ==
  CASE strategy = "Pattern" -> PatternStart(d) # {}
    [] strategy = "ActualItem8" -> ActualStart(d) # {}
    [] strategy = "Toc" -> find_iter(toc_re[1], d) # {} /\ find_iter(anchor_re[1], d) # {}
    [] strategy = "FinancialStatement" -> FinBestMatch(d) # {}
    [] strategy = "PartII" ->
         /\ find_iter(part2_re[1], d) # {}
         /\ PartIICandidates(d, Leftmost(find_iter(part2_re[1], d))[1]) # {}

(* The text of the reason recorded for the strategy of attempt i. *)
RecordedReason(i) == debug_info[name(attempts[i].strategy)][1]

(* C25: for every slot that was rejected, the recorded reason is "not      *)
(* found" exactly when its strategy located no start candidate, and "too   *)
(* small" or "lacks indicators" when it located one: a located span that   *)
(* is too small is never recorded as not found.                            *)
C25_ReasonMatchesCause ==
  \A i \in DOMAIN attempts :
     attempts[i].verdict \in Rejections =>
        /\ RecordedReason(i) = "No match found" <=> ~ StartLocated(doc, attempts[i].strategy)
        /\ RecordedReason(i) = "Section too small" =>
              /\ attempts[i].out.kind = "Some"
              /\ TooSmall(attempts[i].out.start_pos, attempts[i].out.end_pos, min_section_size)
        /\ RecordedReason(i) = "Found section lacks financial content indicators" =>
              /\ attempts[i].out.kind = "Some"
              /\ ~ TooSmall(attempts[i].out.start_pos, attempts[i].out.end_pos,
                            min_section_size)
              /\ ~ ContentOk(doc, attempts[i].out.start_pos, attempts[i].out.end_pos)

(* The span of a part-scoped strategy does not start before the first      *)
(* PART II heading, and the Part II strategy returns none without one.     *)
StartWithinPartII(d, strategy, out) ==
  (out.kind = "Some" /\ strategy \in { "PartII", "ActualItem8" }) =>
     IF find_iter(part2_re[1], d) # {}
     THEN out.start_pos >= Leftmost(find_iter(part2_re[1], d))[1]
     ELSE strategy = "ActualItem8"

(* C26: the start chosen by the Part II strategy and by the                *)
(* actual-Item-8 strategy never lies before the first PART II heading of   *)
(* a document that has one; without one the Part II strategy returns no    *)
(* span and only the actual-Item-8 strategy searches the whole document.   *)
C26_StartNotBeforePartII ==
  /\ pc = "unit" => StartWithinPartII(doc, unit.strategy, unit.out)
  /\ \A i \in DOMAIN attempts : StartWithinPartII(doc, attempts[i].strategy, attempts[i].out)

(* C26 happens: a part-scoped strategy returned a span although an Item 8  *)
(* reference outside the table of contents precedes the PART II heading.   *)
C26_Witness ==
  /\ pc = "unit"
  /\ unit.strategy \in { "PartII", "ActualItem8" }
  /\ unit.out.kind = "Some"
  /\ find_iter(part2_re[1], doc) # {}
  /\ \E m \in find_iter(item8_re[1], doc) :
        /\ m[1] < Leftmost(find_iter(part2_re[1], doc))[1]
        /\ ~ is_in_table_of_contents(doc, m[1])

(* A span is well formed in d. *)
WellFormed(d, out) ==
  out.kind = "Some" => (0 <= out.start_pos /\ out.start_pos <= out.end_pos
                        /\ out.end_pos <= DocLen(d))

(* C27: every span a strategy's extract returns satisfies                  *)
(* 0 <= start <= end <= document length.                                   *)
C27_SpanWithinDocument ==
  /\ pc = "unit" => WellFormed(doc, unit.out)
  /\ \A i \in DOMAIN attempts : WellFormed(doc, attempts[i].out)

(* C27 happens: a strategy returned an empty span, and extract_item_8      *)
(* computed its size for the "too small" reason.                           *)
C27_Witness ==
  /\ attempts # <<>>
  /\ attempts[1].out.kind = "Some"
  /\ attempts[1].out.start_pos = attempts[1].out.end_pos
  /\ attempts[1].verdict = "too small"

(* The chain without its fourth slot. *)
WithoutFourth == << strategies[1], strategies[2], strategies[3], strategies[5], strategies[6] >>

(* The slots of a chain at which extract_item_8 would stop. *)
Deciding(chain, d, e) ==
  { i \in 1..Len(chain) :
      Verdict(d, extract(chain[i], d, e), get_min_section_size(e)) \in { "accept", "abort" } }

(* What extract_item_8 returns when it stops at a slot whose strategy       *)
(* returned span: the kind of the result and the span.                     *)
ChainOutcome(span) ==
  IF span.kind = "Panic" THEN << "Panic", None >> ELSE << "Ok", span >>

ChainStop(chain, d, e, deciding) ==
  IF deciding = {} THEN << "Err", None >>
  ELSE ChainOutcome(extract(chain[Least(deciding)], d, e))

(* What extract_item_8 would return with the given chain. *)
ChainResult(chain, d, e) == ChainStop(chain, d, e, Deciding(chain, d, e))

(* C28: the fourth slot (the second ToC-guided one) yields the outcome     *)
(* the first slot yielded, which was rejected; it never produces the       *)
(* returned section, and a call that reaches it returns what the chain     *)
(* without that slot would return.                                         *)
C28_SecondTocSlotRedundant ==
  /\ Len(attempts) >= 4 =>
        /\ attempts[4].out = attempts[1].out
        /\ attempts[4].verdict = attempts[1].verdict
        /\ attempts[4].verdict \in Rejections
  /\ pc = "done" => result.slot # 4
  /\ (pc = "done" /\ Len(attempts) >= 4) =>
        << result.kind, result.span >> = ChainResult(WithoutFourth, doc, env)

(* C28 happens: the fourth slot was reached, the ToC-guided strategy       *)
(* located a span again, and the call went on to return a section from a   *)
(* later slot.                                                             *)
C28_Witness ==
  /\ pc = "done"
  /\ result.kind = "Ok"
  /\ result.slot > 4
  /\ attempts[4].out.kind = "Some"

(* All matches of the statement-heading patterns in d that lie outside     *)
(* the table of contents.                                                  *)
StatementCandidates(d) ==
  { m \in UNION { find_iter(statement_patterns[r], d) : r \in 1..Len(statement_patterns) } :
      ~ is_in_table_of_contents(d, m[1]) }

(* C29: the financial-statement strategy starts at the earliest match of   *)
(* any statement-heading pattern outside the table of contents; a pattern  *)
(* whose first match is inside the table of contents still contributes     *)
(* its later matches.                                                      *)
C29_FinStartsAtEarliestOutsideToc ==
  (pc = "unit" /\ unit.strategy = "FinancialStatement") =>
     IF StatementCandidates(doc) = {}
     THEN unit.out.kind = "None"
     ELSE /\ unit.out.kind = "Some"
          /\ unit.out.start_pos = Leftmost(StatementCandidates(doc))[1]

(* Where the 5000 bytes before a position begin. *)
WindowStart(position) == IF position > TocLookBack THEN position - TocLookBack ELSE 0

(* The first token of d that reaches into the bytes [from, ..). *)
FirstTokenFrom(d, from) ==
  Least({ i \in 1..(Len(d) + 1) : i = Len(d) + 1 \/ Pos(d, i + 1) > from })

(* The text of d in the (up to) 5000 bytes before the start of token       *)
(* number index: how many bytes of its first token are cut off, and its    *)
(* tokens.                                                                 *)
WindowFrom(d, index, first) ==
  IF first >= index THEN << 0, <<>> >>
  ELSE << IF WindowStart(Pos(d, index)) > Pos(d, first)
          THEN WindowStart(Pos(d, index)) - Pos(d, first) ELSE 0,
          SubSeq(d, first, index - 1) >>

Window(d, index) == WindowFrom(d, index, FirstTokenFrom(d, WindowStart(Pos(d, index))))

(* C30: is_in_table_of_contents is a function of the (up to) 5000 bytes    *)
(* before the position: it returns false when no ToC indicator occurs in   *)
(* them, whatever lies farther back, and it returns the same value for     *)
(* every document and position with the same bytes before the position,    *)
(* whatever the text at or after the position is.                          *)
C30_DependsOnlyOnWindow ==
  (pc = "unit" /\ unit.strategy = "is_in_table_of_contents") =>
     /\ IndicatorsIn(doc, WindowStart(unit.out.position), unit.out.position) = {}
           => unit.out.value = FALSE
     /\ \A d \in DocsToc : \A j \in 1..(Len(d) + 1) :
           Window(d, j) = Window(doc, unit.out.index)
              => is_in_table_of_contents(d, Pos(d, j)) = unit.out.value

(* C30 happens: a position more than 5000 bytes after the only ToC         *)
(* heading of the document is classified as not ToC, and another document  *)
(* has the same window before a position but different text after it.      *)
C30_Witness ==
  /\ pc = "unit"
  /\ unit.strategy = "is_in_table_of_contents"
  /\ unit.out.value = FALSE
  /\ IndicatorsIn(doc, 0, unit.out.position) # {}
  /\ IndicatorsIn(doc, WindowStart(unit.out.position), unit.out.position) = {}
  /\ \E d \in DocsToc : \E j \in 1..(Len(d) + 1) :
        /\ Window(d, j) = Window(doc, unit.out.index)
        /\ SubSeq(d, j, Len(d)) # SubSeq(doc, unit.out.index, Len(doc))

=============================================================================
